---- MODULE Spec2Model ----
(***************************************************************************)
(* Model of the spotify-now-playing backend (src/server.js): the OAuth2    *)
(* login / callback routes with their CSRF state store, the token pair     *)
(* kept in memory and in tokens.json, and the /current route with its      *)
(* refresh-and-retry and rate-limit-and-retry recursion.                   *)
(*                                                                         *)
(* Node runs one handler segment at a time: the code between two awaits    *)
(* of a network call is one atomic action here.  Tokens are naturals, 0    *)
(* standing for every falsy token value ("" and undefined).                *)
(***************************************************************************)
EXTENDS Naturals, Integers, Sequences, FiniteSets, TLC

VARIABLES accessToken, refreshToken, tokenFile, stateStore, generated,
          minted, pc, query, returnTo, retryHdr, timer, saving, hist, met, env

vars == <<accessToken, refreshToken, tokenFile, stateStore, generated,
          minted, pc, query, returnTo, retryHdr, timer, saving, hist, met, env>>

(***************************************************************************)
(* Bounds                                                                  *)
(***************************************************************************)
\* number of request slots: no run receives more requests
NumReqs == 4
\* a run with overlapping requests: the number of requests, of calls to the
\* provider (api + token endpoint), and of requests waiting for the provider
\* at one time
MaxReqs == 2
MaxNet == 3
MaxInFlight == 2
\* a run that serves its requests one after the other and follows each
\* through its retries: the number of requests and of provider calls
DeepReqs == 2
DeepNet == 4
\* a run long enough to replay a callback and to use the tokens the first
\* callback obtained: the number of requests and of provider calls
AuthReqs == 3
AuthNet == 4
\* a run of two overlapping /current requests, each through a refresh and a
\* retry: the number of requests and of provider calls
RaceReqs == 2
RaceNet == 6

Reqs == 1..NumReqs
\* the token a tokens.json left by an earlier run holds
OldToken == 1
\* payloads of a 200 answer of the currently-playing endpoint
Payloads == {1, 2}
\* state values a /callback request may carry: 0 is the missing or empty
\* parameter, NumReqs + 1 is a value /login never generates
ForgedState == NumReqs + 1
StateParams == (0..generated) \cup {ForgedState}
\* code values a /callback request may carry: 0 is the missing parameter
CodeParams == {0, 1}
\* req.query.returnTo of /login; Undefined is the absent parameter
Undefined == "undefined"
ReturnToParams == {Undefined, "/dashboard"}
\* what the upstream api answers: 0 is a network failure (no err.response)
UpstreamStatuses == {200, 204, 401, 429, 500, 0}
\* retry-after header values, as character sequences; the absent header
\* reads as undefined, which parseInt turns into the string "undefined"
UndefinedChars == <<"u", "n", "d", "e", "f", "i", "n", "e", "d">>
RetryAfterHeaders == {UndefinedChars, <<"0">>, <<"2">>}
\* the retry-after values of the run that goes through the hints: the absent
\* header and every string of at most HintLen of these characters
HintLen == 2
HintChars == {"0", "1", "2", "-", "x"}
HintHeaders ==
  {UndefinedChars} \cup UNION {[1..n -> HintChars] : n \in 0..HintLen}
\* the provider calls of that run
HintNet == 2
\* the requests and the provider calls of the run of the login flow
ConsumeReqs == 4
ConsumeNet == 2

(***************************************************************************)
(* The per-request log: what the handler did, in the order it did it       *)
(***************************************************************************)
Ev(e, v, w) == [e |-> e, v |-> v, w |-> w]
Has(h, e) == \E i \in 1..Len(h) : h[i].e = e
Count(h, e) == Cardinality({i \in 1..Len(h) : h[i].e = e})
Idx(h, e) == {i \in 1..Len(h) : h[i].e = e}
InFlight == {q \in Reqs : pc[q] \notin {"idle", "done"}}

\* response bodies
BodyNone == 0
NotPlaying == 0
ErrMissing == 1
ErrInvalidState == 2
ErrNotAuthenticated == 1
ErrRefreshFailed == 2
ErrFetchFailed == 3
ErrAuthFailed == 4

(***************************************************************************)
(* TokenStore                                                              *)
(***************************************************************************)
\* tokens.json as an earlier run of the service may have left it
InitFiles == {<<>>, <<OldToken, OldToken>>, <<OldToken, 0>>, <<0, OldToken>>}

\* loadTokens: a missing or unreadable file leaves the pair empty
LoadTokens(file) == IF file = <<>> THEN <<0, 0>> ELSE <<file[1], file[2]>>

\* a save that writes the access token only
SaveTokensAccessOnly(file, at, rt, ok, torn) == IF ok THEN <<at, 0>> ELSE file

\* a save that does not overwrite a record written since start-up
SaveTokensOnce(file, at, rt, ok, torn) ==
  IF ok /\ file \in InitFiles THEN <<at, rt>> ELSE file

\* saveTokens: writeFileSync opens tokens.json truncating it, writes and
\* closes.  It replaces the record (ok), or it throws and the catch block
\* logs: with the file as it was when the open failed, or, when the write
\* failed after the open (torn), with an empty or partial file, which
\* loadTokens cannot parse
SaveTokens(file, at, rt, ok, torn) ==
  IF ok THEN <<at, rt>> ELSE IF torn THEN <<>> ELSE file

(***************************************************************************)
(* StateRegistry                                                           *)
(***************************************************************************)
\* generateState: 16 random bytes, modelled as a value never drawn before
GenerateState == generated + 1

\* a /login that forgets the returnTo it was given
LoginReturnToDropped(r) == ""

\* const returnTo = req.query.returnTo || ""
LoginReturnTo(r) == IF r = Undefined \/ r = "" THEN "" ELSE r

\* a /login that records nothing
StateStoreSetNothing(store, s, r) == store

\* stateStore.set(state, returnTo)
StateStoreSet(store, s, r) == [x \in DOMAIN store \cup {s} |->
                                 IF x = s THEN r ELSE store[x]]

\* !code || !state
MissingParams(code, state) == code = 0 \/ state = 0

\* a validation that lets every state through
StateStoreHasAny(store, s) == TRUE

\* stateStore.has(state)
StateStoreHas(store, s) == s \in DOMAIN store

\* stateStore.get(state): undefined for a key the map does not hold
StateStoreGet(store, s) == IF s \in DOMAIN store THEN store[s] ELSE Undefined

\* stateStore.get(state) || "/"
CallbackReturnTo(store, s) ==
  IF StateStoreGet(store, s) \in {Undefined, ""} THEN "/" ELSE StateStoreGet(store, s)

\* a consume that leaves the state in the store
StateStoreKeep(store, s) == store

\* stateStore.delete(state)
StateStoreDelete(store, s) == [x \in DOMAIN store \ {s} |-> store[x]]

(***************************************************************************)
(* Rate-limit hint                                                         *)
(***************************************************************************)
IsDigit(c) == c \in {"0", "1", "2", "3", "4", "5", "6", "7", "8", "9"}
DigitVal(c) == CASE c = "0" -> 0 [] c = "1" -> 1 [] c = "2" -> 2 [] c = "3" -> 3
                 [] c = "4" -> 4 [] c = "5" -> 5 [] c = "6" -> 6 [] c = "7" -> 7
                 [] c = "8" -> 8 [] c = "9" -> 9

RECURSIVE SkipSpace(_)
SkipSpace(s) == IF s # <<>> /\ Head(s) = " " THEN SkipSpace(Tail(s)) ELSE s

RECURSIVE DigitPrefix(_, _)
\* value of the longest prefix of decimal digits of s, from accumulator acc
DigitPrefix(s, acc) == IF s # <<>> /\ IsDigit(Head(s))
                       THEN DigitPrefix(Tail(s), acc * 10 + DigitVal(Head(s)))
                       ELSE acc

\* parseInt(string): leading blanks, an optional sign, then decimal digits;
\* NaN when no digit follows
ParseInt(s) ==
  LET t == SkipSpace(s)
      neg == t # <<>> /\ Head(t) = "-"
      u == IF t # <<>> /\ Head(t) \in {"-", "+"} THEN Tail(t) ELSE t
  IN IF u = <<>> \/ ~IsDigit(Head(u))
     THEN [nan |-> TRUE, val |-> 0]
     ELSE [nan |-> FALSE,
           val |-> IF neg THEN 0 - DigitPrefix(u, 0) ELSE DigitPrefix(u, 0)]

\* parseInt(err.response.headers["retry-after"]) || 1
RetryAfter(hdr) == LET p == ParseInt(hdr)
                   IN IF p.nan \/ p.val = 0 THEN 1 ELSE p.val

\* delay(retryAfter * 1000): whole seconds until the timer may fire; a
\* negative setTimeout delay fires at once
DelaySeconds(retryAfter) == IF retryAfter * 1000 < 1 THEN 0 ELSE retryAfter

(***************************************************************************)
(* AuthFlow and UpstreamClient decisions                                   *)
(***************************************************************************)
\* a /current without the access-token guard
AuthenticatedAlways(at) == TRUE

\* if (!accessToken) return res.status(401)
Authenticated(at) == at # 0

\* if (!refreshToken) return false
NoRefreshToken(rt) == rt = 0

\* a refresh that assigns response.data.refresh_token unconditionally
NewRefreshTokenAssigned(old, returned) == returned

\* if (response.data.refresh_token) refreshToken = response.data.refresh_token
NewRefreshToken(old, returned) == IF returned # 0 THEN returned ELSE old

\* a catch block that backs off and retries on every failure but a 401
ErrorRouteRetryAll(status, rt) ==
  IF status # 0 /\ status = 401 /\ rt # 0 THEN "refresh" ELSE "backoff"

\* the catch block of fetchCurrent: which way an upstream failure goes
ErrorRoute(status, rt) ==
  IF status # 0 /\ status = 401 /\ rt # 0 THEN "refresh"
  ELSE IF status # 0 /\ status = 429 THEN "backoff"
  ELSE "fail"

\* the retry sent with the token held before the refresh
RefreshedStepsStale(at, rt, newAt, saved) ==
  <<Ev("refreshOk", at, rt), Ev("update", newAt, 0),
    Ev("save", IF saved THEN 1 ELSE 0, 0), Ev("fetch", accessToken, 0)>>

\* the retry sent before the pair is assigned and saved
RefreshedStepsRetryFirst(at, rt, newAt, saved) ==
  <<Ev("refreshOk", at, rt), Ev("fetch", newAt, 0), Ev("update", newAt, 0),
    Ev("save", IF saved THEN 1 ELSE 0, 0)>>

\* what the handler does once refreshAccessToken has a 2xx answer carrying
\* access token at: assign the pair, saveTokens(), return true, fetchCurrent()
RefreshedSteps(at, rt, newAt, saved) ==
  <<Ev("refreshOk", at, rt), Ev("update", newAt, 0),
    Ev("save", IF saved THEN 1 ELSE 0, 0), Ev("fetch", newAt, 0)>>

\* a failed refresh reported as a 500
RefreshFailedAsServerError ==
  <<Ev("refreshFail", 0, 0), Ev("respond", 500, ErrRefreshFailed)>>

\* what the handler does once refreshAccessToken has caught a failure:
\* return false, then res.status(401)
RefreshFailedSteps == <<Ev("refreshFail", 0, 0), Ev("respond", 401, ErrRefreshFailed)>>

\* a failed exchange answered with the success page
ExchangeFailedAsOk == <<Ev("exchangeFail", 0, 0), Ev("respond", 200, BodyNone)>>

\* the catch block of /callback: console.error, then res.status(500)
ExchangeFailedSteps == <<Ev("exchangeFail", 0, 0), Ev("respond", 500, ErrAuthFailed)>>

\* the try block of fetchCurrent on a 2xx answer
SuccessSteps(status, payload) ==
  IF status = 204 THEN <<Ev("status", 204, 0), Ev("respond", 200, NotPlaying)>>
  ELSE <<Ev("status", status, payload), Ev("respond", status, payload)>>

(***************************************************************************)
(* State after construction: module initialisation, then loadTokens()      *)
(***************************************************************************)
\* the server right after start-up
Started ==
  /\ tokenFile \in InitFiles
  /\ accessToken = LoadTokens(tokenFile)[1]
  /\ refreshToken = LoadTokens(tokenFile)[2]
  /\ stateStore = <<>>
  /\ generated = 0
  /\ minted = OldToken
  /\ pc = [q \in Reqs |-> "idle"]
  /\ query = [q \in Reqs |-> Undefined]
  /\ returnTo = [q \in Reqs |-> ""]
  /\ retryHdr = [q \in Reqs |-> <<>>]
  /\ timer = [q \in Reqs |-> 0]
  /\ saving = [q \in Reqs |-> <<>>]
  /\ hist = [q \in Reqs |-> <<>>]
  /\ met = [q \in Reqs |-> {}]

\* the run in which a /login, a /callback and a /current are served while
\* an earlier /current waits in its backoff: the routes of the requests the
\* clients send, in the order they send them
BackoffPlan == <<"current", "login", "callback", "current">>

\* env is what the clients and the provider will still do in the run:
\* reqs requests to arrive, calls provider calls to answer, par requests
\* served at one time, and plan the routes of the next requests (any route
\* once the plan is empty)
Init ==
  /\ Started
  /\ env = [reqs |-> MaxReqs, calls |-> MaxNet, par |-> MaxInFlight, plan |-> <<>>]

\* a run of few requests, one after the other, through more provider calls
InitDeep ==
  /\ Started
  /\ env = [reqs |-> DeepReqs, calls |-> DeepNet, par |-> 1, plan |-> <<>>]

\* every 2xx answer of the token endpoint carries tokens the provider never
\* gave out before
MintedAccess == minted + 1
MintedRefresh == minted + 2

\* a run of requests served one after the other by a server that starts
\* with no tokens.json: the tokens come from /callback
InitAuth ==
  /\ Started
  /\ tokenFile = <<>>
  /\ env = [reqs |-> AuthReqs, calls |-> AuthNet, par |-> 1, plan |-> <<>>]

\* a run of overlapping requests of a server that starts with both tokens
InitRace ==
  /\ Started
  /\ tokenFile = <<OldToken, OldToken>>
  /\ env = [reqs |-> RaceReqs, calls |-> RaceNet, par |-> RaceReqs, plan |-> <<>>]

\* a run of the planned requests, overlapping, of a server that starts with
\* both tokens
InitBackoff ==
  /\ Started
  /\ tokenFile = <<OldToken, OldToken>>
  /\ env = [reqs |-> Len(BackoffPlan), calls |-> MaxNet, par |-> MaxInFlight,
            plan |-> BackoffPlan]

\* a server whose backoff keeps the event loop busy: no request is taken
\* while one is suspended
ArrivesWhenNoneSuspended(q) ==
  /\ pc[q] = "idle"
  /\ env.reqs > 0
  /\ \A p \in Reqs : p < q => pc[p] # "idle"
  /\ \A p \in Reqs : ~(pc[p] = "delay" /\ timer[p] > 0)

\* a run of one /current request, rate limited, of a server that starts
\* with both tokens
InitHint ==
  /\ Started
  /\ tokenFile = <<OldToken, OldToken>>
  /\ env = [reqs |-> 1, calls |-> HintNet, par |-> 1, plan |-> <<"current">>]

\* a run of /login and /callback requests, two of them in flight at most, of
\* a server that starts with no tokens.json
InitConsume ==
  /\ Started
  /\ tokenFile = <<>>
  /\ env = [reqs |-> ConsumeReqs, calls |-> ConsumeNet, par |-> MaxInFlight,
            plan |-> <<>>]

\* requests take the slots in order
Arrives(q) == /\ pc[q] = "idle"
              /\ env.reqs > 0
              /\ \A p \in Reqs : p < q => pc[p] # "idle"

\* the handler of request q may issue one more call to the provider
CanCall(q) == env.calls > 0 /\ Cardinality(InFlight \ {q}) < env.par

\* arrived: a request was taken; called: a provider call was issued
EnvAfter(arrived, called) ==
  [env EXCEPT !.reqs = IF arrived THEN @ - 1 ELSE @,
              !.calls = IF called THEN @ - 1 ELSE @,
              !.plan = IF arrived /\ @ # <<>> THEN Tail(@) ELSE @]

\* the next request the clients send may be one for this route
Sends(route) == IF env.plan = <<>> THEN TRUE ELSE Head(env.plan) = route

Log(q, evs) == hist' = [hist EXCEPT ![q] = hist[q] \o evs]

\* the requests waiting in a rate-limit backoff whose timer has not run out
Suspended == {q \in Reqs : pc[q] = "delay" /\ timer[q] > 0}
\* met[q] records which requests were suspended when request q arrived; it
\* is kept in the runs that follow a plan of requests
Meets(q) ==
  met' = [met EXCEPT ![q] = IF env.plan = <<>> THEN {} ELSE Suspended]
Goto(q, l) == pc' = [pc EXCEPT ![q] = l]

(***************************************************************************)
(* GET /login                                                              *)
(***************************************************************************)
Login(q, r) ==
  /\ Arrives(q)
  /\ UNCHANGED saving
  /\ Meets(q)
  /\ Sends("login")
  /\ LET state == GenerateState
     IN /\ stateStore' = StateStoreSet(stateStore, state, LoginReturnTo(r))
        /\ generated' = state
        /\ Log(q, <<Ev("login", state, 0), Ev("respond", 302, BodyNone)>>)
  /\ query' = [query EXCEPT ![q] = r]
  /\ Goto(q, "done")
  /\ env' = EnvAfter(TRUE, FALSE)
  /\ UNCHANGED <<accessToken, refreshToken, tokenFile, minted, returnTo, retryHdr,
                 timer>>

(***************************************************************************)
(* GET /callback                                                           *)
(***************************************************************************)
Callback(q, code, state) ==
  /\ Arrives(q)
  /\ UNCHANGED saving
  /\ Meets(q)
  /\ Sends("callback")
  /\ IF MissingParams(code, state)
     THEN /\ Log(q, <<Ev("callback", code, state), Ev("respond", 400, ErrMissing)>>)
          /\ Goto(q, "done")
          /\ env' = EnvAfter(TRUE, FALSE)
          /\ UNCHANGED <<stateStore, returnTo>>
     ELSE IF ~StateStoreHas(stateStore, state)
     THEN /\ Log(q, <<Ev("callback", code, state),
                      Ev("respond", 400, ErrInvalidState)>>)
          /\ Goto(q, "done")
          /\ env' = EnvAfter(TRUE, FALSE)
          /\ UNCHANGED <<stateStore, returnTo>>
     ELSE /\ CanCall(q)
          /\ returnTo' = [returnTo EXCEPT ![q] = CallbackReturnTo(stateStore, state)]
          /\ stateStore' = StateStoreDelete(stateStore, state)
          /\ Log(q, <<Ev("callback", code, state), Ev("consume", state, 0),
                      Ev("exchange", code, 0)>>)
          /\ Goto(q, "exchange")
          /\ env' = EnvAfter(TRUE, TRUE)
  /\ UNCHANGED <<accessToken, refreshToken, tokenFile, generated, minted, query,
                 retryHdr, timer>>

\* the token endpoint answers the authorization_code grant with a new pair
ExchangeOk(q, at, rt, saved, torn) ==
  /\ pc[q] = "exchange"
  /\ UNCHANGED <<saving, met>>
  /\ minted' = minted + 2
  /\ accessToken' = at
  /\ refreshToken' = rt
  /\ tokenFile' = SaveTokens(tokenFile, accessToken', refreshToken', saved, torn)
  /\ Log(q, <<Ev("exchangeOk", at, rt), Ev("update", accessToken', refreshToken'),
              Ev("save", IF saved THEN 1 ELSE 0, 0), Ev("respond", 200, BodyNone)>>)
  /\ Goto(q, "done")
  /\ UNCHANGED <<stateStore, generated, query, returnTo, retryHdr, timer, env>>

\* the token endpoint rejects the code, or the call fails
ExchangeFail(q) ==
  /\ pc[q] = "exchange"
  /\ UNCHANGED <<saving, met>>
  /\ Log(q, ExchangeFailedSteps)
  /\ Goto(q, "done")
  /\ UNCHANGED <<accessToken, refreshToken, tokenFile, stateStore, generated,
                 minted, query, returnTo, retryHdr, timer, env>>

(***************************************************************************)
(* GET /current                                                            *)
(***************************************************************************)
Current(q) ==
  /\ Arrives(q)
  /\ UNCHANGED saving
  /\ Meets(q)
  /\ Sends("current")
  /\ IF ~Authenticated(accessToken)
     THEN /\ Log(q, <<Ev("current", 0, 0), Ev("respond", 401, ErrNotAuthenticated)>>)
          /\ Goto(q, "done")
          /\ env' = EnvAfter(TRUE, FALSE)
     ELSE /\ CanCall(q)
          /\ Log(q, <<Ev("current", 0, 0), Ev("fetch", accessToken, 0)>>)
          /\ Goto(q, "fetch")
          /\ env' = EnvAfter(TRUE, TRUE)
  /\ UNCHANGED <<accessToken, refreshToken, tokenFile, stateStore, generated,
                 minted, query, returnTo, retryHdr, timer>>

\* the upstream api answers 2xx
FetchOk(q, status, payload) ==
  /\ pc[q] = "fetch"
  /\ UNCHANGED <<saving, met>>
  /\ status \in {200, 204}
  /\ Log(q, SuccessSteps(status, payload))
  /\ Goto(q, "done")
  /\ UNCHANGED <<accessToken, refreshToken, tokenFile, stateStore, generated,
                 minted, query, returnTo, retryHdr, timer, env>>

\* the upstream api answers with an error status, or the call fails
FetchErr(q, status, hdr) ==
  /\ pc[q] = "fetch"
  /\ UNCHANGED <<saving, met>>
  /\ status \notin {200, 204}
  /\ LET route == ErrorRoute(status, refreshToken)
     IN IF route = "refresh"
        THEN IF NoRefreshToken(refreshToken)
             THEN /\ Log(q, <<Ev("status", status, 0)>> \o RefreshFailedSteps)
                  /\ Goto(q, "done")
                  /\ UNCHANGED <<retryHdr, timer, env>>
             ELSE /\ CanCall(q)
                  /\ Log(q, <<Ev("status", status, 0), Ev("refresh", refreshToken, 0)>>)
                  /\ Goto(q, "refresh")
                  /\ env' = EnvAfter(FALSE, TRUE)
                  /\ UNCHANGED <<retryHdr, timer>>
        ELSE IF route = "backoff"
        THEN /\ retryHdr' = [retryHdr EXCEPT ![q] = hdr]
             /\ timer' = [timer EXCEPT ![q] = DelaySeconds(RetryAfter(hdr))]
             /\ Log(q, <<Ev("status", status, 0),
                         Ev("delay", DelaySeconds(RetryAfter(hdr)), 0)>>)
             /\ Goto(q, "delay")
             /\ UNCHANGED env
        ELSE /\ Log(q, <<Ev("status", status, 0), Ev("respond", 500, ErrFetchFailed)>>)
             /\ Goto(q, "done")
             /\ UNCHANGED <<retryHdr, timer, env>>
  /\ UNCHANGED <<accessToken, refreshToken, tokenFile, stateStore, generated,
                 minted, query, returnTo>>

\* the token endpoint answers the refresh_token grant: a new access token,
\* and a new refresh token or none (rt = 0)
RefreshOk(q, at, rt, saved, torn) ==
  /\ pc[q] = "refresh"
  /\ UNCHANGED <<saving, met>>
  /\ CanCall(q)
  /\ minted' = minted + 2
  /\ accessToken' = at
  /\ refreshToken' = NewRefreshToken(refreshToken, rt)
  /\ tokenFile' = SaveTokens(tokenFile, accessToken', refreshToken', saved, torn)
  /\ Log(q, RefreshedSteps(at, rt, accessToken', saved))
  /\ Goto(q, "fetch")
  /\ env' = EnvAfter(FALSE, TRUE)
  /\ UNCHANGED <<stateStore, generated, query, returnTo, retryHdr, timer>>

\* the token endpoint rejects the grant, or the call fails
RefreshFail(q) ==
  /\ pc[q] = "refresh"
  /\ UNCHANGED <<saving, met>>
  /\ Log(q, RefreshFailedSteps)
  /\ Goto(q, "done")
  /\ UNCHANGED <<accessToken, refreshToken, tokenFile, stateStore, generated,
                 minted, query, returnTo, retryHdr, timer, env>>

\* one second passes for every pending backoff timer
Tick ==
  /\ \E q \in Reqs : pc[q] = "delay" /\ timer[q] > 0
  /\ UNCHANGED <<saving, met>>
  /\ timer' = [q \in Reqs |-> IF timer[q] > 0 THEN timer[q] - 1 ELSE 0]
  /\ UNCHANGED <<accessToken, refreshToken, tokenFile, stateStore, generated,
                 minted, pc, query, returnTo, retryHdr, hist, env>>

\* the backoff timer fires: return fetchCurrent()
DelayElapsed(q) ==
  /\ pc[q] = "delay"
  /\ UNCHANGED <<saving, met>>
  /\ timer[q] = 0
  /\ CanCall(q)
  /\ retryHdr' = [retryHdr EXCEPT ![q] = <<>>]
  /\ Log(q, <<Ev("fetch", accessToken, 0)>>)
  /\ Goto(q, "fetch")
  /\ env' = EnvAfter(FALSE, TRUE)
  /\ UNCHANGED <<accessToken, refreshToken, tokenFile, stateStore, generated,
                 minted, query, returnTo, timer>>

Next ==
  \/ \E q \in Reqs, r \in ReturnToParams : Login(q, r)
  \/ \E q \in Reqs, code \in CodeParams, state \in StateParams : Callback(q, code, state)
  \/ \E q \in Reqs, saved \in BOOLEAN, torn \in BOOLEAN :
        ~(saved /\ torn) /\ ExchangeOk(q, MintedAccess, MintedRefresh, saved, torn)
  \/ \E q \in Reqs : ExchangeFail(q)
  \/ \E q \in Reqs : Current(q)
  \/ \E q \in Reqs, status \in UpstreamStatuses, payload \in Payloads :
        FetchOk(q, status, payload)
  \/ \E q \in Reqs, status \in UpstreamStatuses, hdr \in RetryAfterHeaders :
        FetchErr(q, status, hdr)
  \/ \E q \in Reqs, rt \in {0, MintedRefresh}, saved \in BOOLEAN, torn \in BOOLEAN :
        ~(saved /\ torn) /\ RefreshOk(q, MintedAccess, rt, saved, torn)
  \/ \E q \in Reqs : RefreshFail(q)
  \/ Tick
  \/ \E q \in Reqs : DelayElapsed(q)

\* overlapping requests
Spec == Init /\ [][Next]_vars

\* login, callback and a replayed callback
SpecAuth == InitAuth /\ [][Next]_vars

\* few requests, each followed through its retries
SpecDeep == InitDeep /\ [][Next]_vars

\* two overlapping requests, each followed through its retries
SpecRace == InitRace /\ [][Next]_vars

\* requests served while another waits in its backoff
SpecBackoff == InitBackoff /\ [][Next]_vars

\* a /current request that is answered 429 with any of the hints
NextHint ==
  \/ \E q \in Reqs : Current(q)
  \/ \E q \in Reqs, hdr \in HintHeaders : FetchErr(q, 429, hdr)
  \/ Tick
  \/ \E q \in Reqs : DelayElapsed(q)

SpecHint == InitHint /\ [][NextHint]_vars

\* the login flow: /login, /callback and the answers of the token endpoint
NextConsume ==
  \/ \E q \in Reqs, r \in ReturnToParams : Login(q, r)
  \/ \E q \in Reqs, code \in CodeParams, state \in StateParams : Callback(q, code, state)
  \/ \E q \in Reqs, saved \in BOOLEAN, torn \in BOOLEAN :
        ~(saved /\ torn) /\ ExchangeOk(q, MintedAccess, MintedRefresh, saved, torn)
  \/ \E q \in Reqs : ExchangeFail(q)

SpecConsume == InitConsume /\ [][NextConsume]_vars

(***************************************************************************)
(* The document-store variant of the service: the token pair is one        *)
(* document of a MongoDB collection, written by an awaited updateOne, and  *)
(* /login keeps no state store.                                            *)
(***************************************************************************)
\* saveTokens: updateOne({$set: {accessToken, refreshToken}}) is sent with
\* the pair held at the call
MongoSaveCall(q) == saving' = [saving EXCEPT ![q] = <<accessToken', refreshToken'>>]

\* res.json(response.data) answers 200 whatever 2xx the upstream gave
MongoSuccessSteps(status, payload) ==
  IF status = 204 THEN <<Ev("status", 204, 0), Ev("respond", 200, NotPlaying)>>
  ELSE <<Ev("status", status, payload), Ev("respond", 200, payload)>>

\* err.response?.status === 401 && refreshToken
MongoErrorRoute(status, rt) ==
  IF status # 0 /\ status = 401 /\ rt # 0 THEN "refresh" ELSE "fail"

MongoLogin(q) ==
  /\ Arrives(q)
  /\ Meets(q)
  /\ Sends("login")
  /\ generated' = GenerateState
  /\ Log(q, <<Ev("login", GenerateState, 0), Ev("respond", 302, BodyNone)>>)
  /\ Goto(q, "done")
  /\ env' = EnvAfter(TRUE, FALSE)
  /\ UNCHANGED <<accessToken, refreshToken, tokenFile, stateStore, minted, query,
                 returnTo, retryHdr, timer, saving>>

MongoCallback(q, code, state) ==
  /\ Arrives(q)
  /\ Meets(q)
  /\ Sends("callback")
  /\ IF MissingParams(code, state)
     THEN /\ Log(q, <<Ev("callback", code, state), Ev("respond", 400, ErrMissing)>>)
          /\ Goto(q, "done")
          /\ env' = EnvAfter(TRUE, FALSE)
     ELSE /\ CanCall(q)
          /\ Log(q, <<Ev("callback", code, state), Ev("exchange", code, 0)>>)
          /\ Goto(q, "exchange")
          /\ env' = EnvAfter(TRUE, TRUE)
  /\ UNCHANGED <<accessToken, refreshToken, tokenFile, stateStore, generated,
                 minted, query, returnTo, retryHdr, timer, saving>>

\* the token endpoint answers the authorization_code grant: assign the
\* pair and call saveTokens
MongoExchangeOk(q, at, rt) ==
  /\ pc[q] = "exchange"
  /\ UNCHANGED met
  /\ minted' = minted + 2
  /\ accessToken' = at
  /\ refreshToken' = rt
  /\ MongoSaveCall(q)
  /\ Log(q, <<Ev("exchangeOk", at, rt), Ev("update", accessToken', refreshToken')>>)
  /\ Goto(q, "saveExchange")
  /\ UNCHANGED <<tokenFile, stateStore, generated, query, returnTo, retryHdr,
                 timer, env>>

MongoExchangeFail(q) ==
  /\ pc[q] = "exchange"
  /\ UNCHANGED met
  /\ Log(q, ExchangeFailedSteps)
  /\ Goto(q, "done")
  /\ UNCHANGED <<accessToken, refreshToken, tokenFile, stateStore, generated,
                 minted, query, returnTo, retryHdr, timer, saving, env>>

\* updateOne completes, or throws and is logged; then the awaiting handler
\* goes on: /callback sends its page, refreshAccessToken returns true and
\* fetchCurrent runs again
MongoSaved(q, saved) ==
  /\ pc[q] \in {"saveExchange", "saveRefresh"}
  /\ UNCHANGED met
  /\ tokenFile' = IF saved THEN saving[q] ELSE tokenFile
  /\ saving' = [saving EXCEPT ![q] = <<>>]
  /\ IF pc[q] = "saveExchange"
     THEN /\ Log(q, <<Ev("save", IF saved THEN 1 ELSE 0, 0),
                      Ev("respond", 200, BodyNone)>>)
          /\ Goto(q, "done")
          /\ UNCHANGED env
     ELSE /\ CanCall(q)
          /\ Log(q, <<Ev("save", IF saved THEN 1 ELSE 0, 0),
                      Ev("fetch", accessToken, 0)>>)
          /\ Goto(q, "fetch")
          /\ env' = EnvAfter(FALSE, TRUE)
  /\ UNCHANGED <<accessToken, refreshToken, stateStore, generated, minted, query,
                 returnTo, retryHdr, timer>>

MongoCurrent(q) ==
  /\ Arrives(q)
  /\ Meets(q)
  /\ Sends("current")
  /\ IF ~Authenticated(accessToken)
     THEN /\ Log(q, <<Ev("current", 0, 0), Ev("respond", 401, ErrNotAuthenticated)>>)
          /\ Goto(q, "done")
          /\ env' = EnvAfter(TRUE, FALSE)
     ELSE /\ CanCall(q)
          /\ Log(q, <<Ev("current", 0, 0), Ev("fetch", accessToken, 0)>>)
          /\ Goto(q, "fetch")
          /\ env' = EnvAfter(TRUE, TRUE)
  /\ UNCHANGED <<accessToken, refreshToken, tokenFile, stateStore, generated,
                 minted, query, returnTo, retryHdr, timer, saving>>

MongoFetchOk(q, status, payload) ==
  /\ pc[q] = "fetch"
  /\ UNCHANGED met
  /\ status \in {200, 204}
  /\ Log(q, MongoSuccessSteps(status, payload))
  /\ Goto(q, "done")
  /\ UNCHANGED <<accessToken, refreshToken, tokenFile, stateStore, generated,
                 minted, query, returnTo, retryHdr, timer, saving, env>>

MongoFetchErr(q, status) ==
  /\ pc[q] = "fetch"
  /\ UNCHANGED met
  /\ status \notin {200, 204}
  /\ IF MongoErrorRoute(status, refreshToken) = "refresh"
     THEN IF NoRefreshToken(refreshToken)
          THEN /\ Log(q, <<Ev("status", status, 0)>> \o RefreshFailedSteps)
               /\ Goto(q, "done")
               /\ UNCHANGED env
          ELSE /\ CanCall(q)
               /\ Log(q, <<Ev("status", status, 0), Ev("refresh", refreshToken, 0)>>)
               /\ Goto(q, "refresh")
               /\ env' = EnvAfter(FALSE, TRUE)
     ELSE /\ Log(q, <<Ev("status", status, 0), Ev("respond", 500, ErrFetchFailed)>>)
          /\ Goto(q, "done")
          /\ UNCHANGED env
  /\ UNCHANGED <<accessToken, refreshToken, tokenFile, stateStore, generated,
                 minted, query, returnTo, retryHdr, timer, saving>>

\* the token endpoint answers the refresh_token grant: assign and call
\* saveTokens
MongoRefreshOk(q, at, rt) ==
  /\ pc[q] = "refresh"
  /\ UNCHANGED met
  /\ minted' = minted + 2
  /\ accessToken' = at
  /\ refreshToken' = NewRefreshToken(refreshToken, rt)
  /\ MongoSaveCall(q)
  /\ Log(q, <<Ev("refreshOk", at, rt), Ev("update", accessToken', 0)>>)
  /\ Goto(q, "saveRefresh")
  /\ UNCHANGED <<tokenFile, stateStore, generated, query, returnTo, retryHdr,
                 timer, env>>

MongoRefreshFail(q) ==
  /\ pc[q] = "refresh"
  /\ UNCHANGED met
  /\ Log(q, RefreshFailedSteps)
  /\ Goto(q, "done")
  /\ UNCHANGED <<accessToken, refreshToken, tokenFile, stateStore, generated,
                 minted, query, returnTo, retryHdr, timer, saving, env>>

NextMongo ==
  \/ \E q \in Reqs : MongoLogin(q)
  \/ \E q \in Reqs, code \in CodeParams, state \in StateParams :
        MongoCallback(q, code, state)
  \/ \E q \in Reqs : MongoExchangeOk(q, MintedAccess, MintedRefresh)
  \/ \E q \in Reqs : MongoExchangeFail(q)
  \/ \E q \in Reqs, saved \in BOOLEAN : MongoSaved(q, saved)
  \/ \E q \in Reqs : MongoCurrent(q)
  \/ \E q \in Reqs, status \in UpstreamStatuses, payload \in Payloads :
        MongoFetchOk(q, status, payload)
  \/ \E q \in Reqs, status \in UpstreamStatuses : MongoFetchErr(q, status)
  \/ \E q \in Reqs, rt \in {0, MintedRefresh} : MongoRefreshOk(q, MintedAccess, rt)
  \/ \E q \in Reqs : MongoRefreshFail(q)

\* the document-store variant, overlapping requests
SpecMongo == Init /\ [][NextMongo]_vars

(***************************************************************************)
(* Reading the per-request log                                             *)
(***************************************************************************)
Last(h) == h[Len(h)]
IsStatus(ev) == ev.e = "status"
\* the upstream answers a /current invocation has received, in order
Statuses(h) == SelectSeq(h, IsStatus)
Responded(h) == h # <<>> /\ Last(h).e = "respond"
\* the request of log h is a /callback carrying a code and state s
CallbackWith(h, s) == h # <<>> /\ h[1].e = "callback" /\ h[1].v # 0 /\ h[1].w = s
\* the request of log h passed state validation with state s
Consumed(h, s) == \E i \in 1..Len(h) : h[i] = Ev("consume", s, 0)
\* request q arrives in this step
Arriving(q) == pc[q] = "idle" /\ pc'[q] # "idle"
TokenPairUnchanged == accessToken' = accessToken /\ refreshToken' = refreshToken
\* the upstream answered 401 to the first request and 200 to the second
RefreshThenOk(h) ==
  /\ Len(Statuses(h)) = 2
  /\ Statuses(h)[1].v = 401
  /\ Statuses(h)[2].v = 200
\* the refresh call of request q fails in this step
RefreshFailing(q) == Count(hist'[q], "refreshFail") > Count(hist[q], "refreshFail")
\* the refresh call of request q succeeds in this step
Refreshing(q) == Count(hist'[q], "refreshOk") > Count(hist[q], "refreshOk")
\* the answer of the token endpoint that request q takes in this step
Answer(q) == hist'[q][Len(hist[q]) + 1]
\* request p is a /login that issued state s
LoginIssued(p, s) == hist[p] # <<>> /\ hist[p][1] = Ev("login", s, 0)
\* the returnTo a /login was given, the absent parameter read as empty
Requested(r) == IF r = Undefined THEN "" ELSE r

\* the code exchange of request q succeeds in this step
Exchanging(q) == Count(hist'[q], "exchangeOk") > Count(hist[q], "exchangeOk")
\* the code exchange of request q fails in this step
ExchangeFailing(q) == Count(hist'[q], "exchangeFail") > Count(hist[q], "exchangeFail")
\* the events request q logs in this step
Logged(q) == SubSeq(hist'[q], Len(hist[q]) + 1, Len(hist'[q]))
\* saveTokens, run by request q in this step, wrote the record
SaveSucceeds(q) == \E i \in 1..Len(Logged(q)) : Logged(q)[i] = Ev("save", 1, 0)
\* saveTokens, run by request q in this step, threw and was logged
SaveFails(q) == \E i \in 1..Len(Logged(q)) : Logged(q)[i] = Ev("save", 0, 0)

\* the assignments of the token pair made so far, over all requests: the
\* access token assigned and whether the save that followed wrote the record
Updates ==
  UNION {{[v |-> hist[q][i].v,
           saved |-> i < Len(hist[q]) /\ hist[q][i + 1] = Ev("save", 1, 0)] :
            i \in Idx(hist[q], "update")} : q \in Reqs}
\* the latest of them: the provider never returns a token twice, and the
\* tokens it returns are numbered in the order it returns them
Newest == CHOOSE u \in Updates : \A w \in Updates : w.v <= u.v

\* request q, whose saveTokens fails in this step, keeps the tokens it
\* obtained and goes on: /callback sends its page, /current retries
C14_Tolerated(q) ==
  /\ (Exchanging(q) \/ Refreshing(q)) =>
       /\ accessToken' = Answer(q).v
       /\ Answer(q).w # 0 => refreshToken' = Answer(q).w
  /\ ~(Exchanging(q) \/ Refreshing(q)) => TokenPairUnchanged
  /\ ~Has(hist'[q], "exchangeFail") /\ ~Has(Logged(q), "refreshFail")
  /\ IF Has(hist'[q], "exchangeOk")
     THEN pc'[q] = "done" /\ Last(hist'[q]) = Ev("respond", 200, BodyNone)
     ELSE pc'[q] = "fetch" /\ Last(hist'[q]) = Ev("fetch", accessToken', 0)

\* request q takes an answer of the upstream api in this step
Answered(q) == Count(hist'[q], "status") > Count(hist[q], "status")
\* request q starts a rate-limit backoff in this step
BackingOff(q) == pc[q] # "delay" /\ pc'[q] = "delay"
\* the answers were a 429 and then a 200
RateLimitedThenOk(h) ==
  /\ Len(Statuses(h)) = 2
  /\ Statuses(h)[1].v = 429
  /\ Statuses(h)[2].v = 200
\* a backoff on a retry-after hint of at least `least` seconds lasts the
\* seconds of the hint; no upstream request or refresh is made while it
\* lasts and one upstream request is made when it ends; an invocation
\* answered 429 and then 200 made two upstream requests and no refresh and
\* answers with the 200 payload
BackoffThenRetry(q, least) ==
  /\ BackingOff(q) =>
       LET hint == ParseInt(retryHdr'[q])
       IN (~hint.nan /\ hint.val >= least) =>
            /\ timer'[q] = hint.val
            /\ Last(hist'[q]) = Ev("delay", hint.val, 0)
  /\ pc[q] = "delay" =>
       \/ /\ pc'[q] = "delay" /\ hist'[q] = hist[q]
          /\ timer'[q] \in {timer[q], timer[q] - 1}
       \/ /\ timer[q] = 0
          /\ pc'[q] = "fetch" /\ Logged(q) = <<Ev("fetch", accessToken, 0)>>
  /\ RateLimitedThenOk(hist'[q]) =>
       /\ Count(hist'[q], "fetch") = 2
       /\ Count(hist'[q], "delay") = 1
       /\ Count(hist'[q], "refresh") = 0
       /\ Last(hist'[q]) = Ev("respond", 200, Statuses(hist'[q])[2].w)

\* the clients may send one more request, which takes slot p
NextSlot(p) ==
  /\ pc[p] = "idle"
  /\ env.reqs > 0
  /\ \A r \in Reqs : r < p => pc[r] # "idle"
\* request p arrived while request q was suspended, and has responded
ServedDuring(p, q, route) ==
  /\ q \in met[p]
  /\ pc[p] = "done"
  /\ hist[p][1].e = route
  /\ Responded(hist[p])

\* the header is a decimal integer: one digit or more and nothing else
IsInteger(hdr) == hdr # <<>> /\ \A i \in 1..Len(hdr) : IsDigit(hdr[i])

(***************************************************************************)
(* C1: within one /current invocation the token refresh is invoked at most *)
(* once and the request is retried at most once on the 401 path; a 401 on  *)
(* the retry that follows a successful refresh ends the invocation with a  *)
(* 401 response, without a further refresh or upstream request.            *)
(***************************************************************************)
C1_RefreshAtMostOnce ==
  \A q \in Reqs :
    LET h == hist[q]
    IN /\ Count(h, "refresh") <= 1
       /\ \A i \in Idx(h, "refreshOk"), j \in Idx(h, "status") :
            (i < j /\ h[j].v = 401) =>
               /\ j + 1 = Len(h)
               /\ Last(h).e = "respond"
               /\ Last(h).v = 401

(***************************************************************************)
(* C2: a /current invocation whose first upstream request receives 401 and *)
(* whose second receives 200 made exactly one refresh call and exactly two *)
(* upstream requests, the second carrying the access token that refresh    *)
(* returned, and answers the caller with the 200 payload.                  *)
(***************************************************************************)
C2_RefreshThenRetry ==
  \A q \in Reqs :
    LET h == hist[q]
    IN RefreshThenOk(h) =>
         /\ Count(h, "refresh") = 1
         /\ Count(h, "refreshOk") = 1
         /\ Count(h, "fetch") = 2
         /\ \A i \in Idx(h, "refreshOk"), j \in Idx(h, "fetch") :
              i < j => h[j].v = h[i].v
         /\ Last(h) = Ev("respond", 200, Statuses(h)[2].w)

C2_Witness ==
  \E q \in Reqs :
    /\ RefreshThenOk(hist[q])
    /\ Responded(hist[q])
    /\ \E i, j \in Idx(hist[q], "fetch") : i < j /\ hist[q][i].v # hist[q][j].v

(***************************************************************************)
(* C3: when the refresh call that follows a 401 fails, the invocation      *)
(* answers 401, issues no further upstream request or refresh (one fetch   *)
(* and one refresh in all when the 401 answered its first request), and    *)
(* leaves the in-memory token pair as it was.                              *)
(***************************************************************************)
C3_RefreshFailure ==
  [][\A q \in Reqs :
       /\ RefreshFailing(q) =>
            /\ pc'[q] = "done"
            /\ Last(hist'[q]) = Ev("respond", 401, ErrRefreshFailed)
            /\ Count(hist'[q], "fetch") = Count(hist[q], "fetch")
            /\ Count(hist'[q], "refresh") = Count(hist[q], "refresh")
            /\ env'.calls = env.calls
            /\ TokenPairUnchanged
            /\ Len(Statuses(hist[q])) = 1 =>
                 Count(hist'[q], "fetch") = 1 /\ Count(hist'[q], "refresh") = 1
       /\ pc[q] = "done" => pc'[q] = "done" /\ hist'[q] = hist[q]]_vars

C3_Witness ==
  \E q \in Reqs :
    /\ pc[q] = "done"
    /\ Has(hist[q], "refreshFail")
    /\ Len(Statuses(hist[q])) = 1
    /\ Last(hist[q]) = Ev("respond", 401, ErrRefreshFailed)

(***************************************************************************)
(* C4: a state issued by /login passes the state validation of /callback   *)
(* at most once; every other /callback that carries it with a code is      *)
(* answered 400 invalid state, the state having left the store on its      *)
(* first use.                                                              *)
(***************************************************************************)
C4_StateSingleUse ==
  \A s \in 1..generated :
    LET users == {q \in Reqs : Consumed(hist[q], s)}
    IN /\ Cardinality(users) <= 1
       /\ users # {} => ~StateStoreHas(stateStore, s)
       /\ \A q \in Reqs \ users :
            CallbackWith(hist[q], s) =>
              hist[q] = <<hist[q][1], Ev("respond", 400, ErrInvalidState)>>

C4_Witness ==
  \E s \in 1..generated, p, q \in Reqs :
    /\ p < q
    /\ Consumed(hist[p], s)
    /\ CallbackWith(hist[q], s)
    /\ Last(hist[q]) = Ev("respond", 400, ErrInvalidState)

(***************************************************************************)
(* C5: a /callback whose state is missing, empty or was never issued by    *)
(* /login is answered 4xx, makes no code exchange, and leaves the token    *)
(* pair, the token file and the state store as they were.                  *)
(***************************************************************************)
C5_BadStateRejected ==
  [][\A q \in Reqs :
       (/\ Arriving(q)
        /\ hist'[q][1].e = "callback"
        /\ hist'[q][1].w \notin 1..generated) =>
          /\ pc'[q] = "done"
          /\ Last(hist'[q]).e = "respond"
          /\ Last(hist'[q]).v \in 400..499
          /\ ~Has(hist'[q], "exchange")
          /\ env'.calls = env.calls
          /\ TokenPairUnchanged
          /\ tokenFile' = tokenFile
          /\ stateStore' = stateStore]_vars

C5_Witness ==
  \E q \in Reqs :
    /\ hist[q] = <<Ev("callback", 1, ForgedState), Ev("respond", 400, ErrInvalidState)>>
    /\ stateStore # <<>>
    /\ \E p \in Reqs : hist[p] = <<Ev("callback", 1, 0), Ev("respond", 400, ErrMissing)>>

(***************************************************************************)
(* C6: one /current invocation makes at most three rate-limit retries and  *)
(* then answers with a terminal error.                                     *)
(***************************************************************************)
C6_RateLimitRetriesCapped ==
  \A q \in Reqs : Count(hist[q], "delay") <= 3

(***************************************************************************)
(* C7: with no access token in memory /current answers 401 not             *)
(* authenticated at once, calls neither the upstream api nor the token     *)
(* endpoint, and leaves the token pair as it was, whether or not a refresh *)
(* token is held.                                                          *)
(***************************************************************************)
C7_Unauthenticated ==
  [][\A q \in Reqs :
       (/\ Arriving(q)
        /\ hist'[q][1].e = "current"
        /\ accessToken = 0) =>
          /\ pc'[q] = "done"
          /\ hist'[q] = <<Ev("current", 0, 0), Ev("respond", 401, ErrNotAuthenticated)>>
          /\ env'.calls = env.calls
          /\ TokenPairUnchanged]_vars

C7_Witness ==
  \E q \in Reqs :
    /\ hist[q] = <<Ev("current", 0, 0), Ev("respond", 401, ErrNotAuthenticated)>>
    /\ accessToken = 0
    /\ refreshToken # 0

(***************************************************************************)
(* C8, as claimed: the state /login issues is bound to the returnTo it was  *)
(* given, the absent or empty one included, and the /callback that         *)
(* consumes the state gets exactly that returnTo as the post-login         *)
(* destination.                                                            *)
(***************************************************************************)
C8_DestinationIsReturnTo ==
  \A s \in 1..generated, p, q \in Reqs :
    (LoginIssued(p, s) /\ Consumed(hist[q], s)) => returnTo[q] = Requested(query[p])

(***************************************************************************)
(* C8, amended: a non-empty returnTo given to /login is the post-login     *)
(* destination of the /callback that consumes the state; an absent or      *)
(* empty one gives the destination "/"; any other /callback that carries   *)
(* the state is answered 400 invalid state.                                *)
(***************************************************************************)
C8_DestinationOrRoot ==
  \A s \in 1..generated, p, q \in Reqs :
    (LoginIssued(p, s) /\ Consumed(hist[q], s)) =>
      /\ returnTo[q] = IF Requested(query[p]) = "" THEN "/" ELSE query[p]
      /\ \A o \in Reqs \ {q} :
           CallbackWith(hist[o], s) => Last(hist[o]) = Ev("respond", 400, ErrInvalidState)

C8_Witness ==
  \E s \in 1..generated, p, q, o \in Reqs :
    /\ LoginIssued(p, s)
    /\ query[p] = "/dashboard"
    /\ Consumed(hist[q], s)
    /\ returnTo[q] = "/dashboard"
    /\ q < o
    /\ CallbackWith(hist[o], s)
    /\ Responded(hist[o])

(***************************************************************************)
(* C9: a successful refresh assigns the access token the provider          *)
(* returned; it assigns the refresh token only when the answer carries     *)
(* one, and otherwise keeps the refresh token held when the answer         *)
(* arrived: a refresh never clears it.                                     *)
(***************************************************************************)
C9_RefreshKeepsRefreshToken ==
  [][\A q \in Reqs :
       Refreshing(q) =>
         /\ Answer(q).e = "refreshOk"
         /\ accessToken' = Answer(q).v
         /\ Answer(q).w # 0 => refreshToken' = Answer(q).w
         /\ Answer(q).w = 0 => refreshToken' = refreshToken
         /\ refreshToken # 0 => refreshToken' # 0]_vars

C9_Witness ==
  \E q \in Reqs : \E i \in 1..Len(hist[q]) :
    /\ hist[q][i].e = "refreshOk"
    /\ hist[q][i].w = 0
    /\ accessToken = hist[q][i].v
    /\ refreshToken # 0

(***************************************************************************)
(* C10: in a /current invocation that refreshes, the refresh answer is     *)
(* received, then the token pair is assigned, then saveTokens runs, and    *)
(* only then is the retried upstream request issued.                       *)
(***************************************************************************)
C10_RefreshSaveThenRetry ==
  \A q \in Reqs :
    LET h == hist[q]
        \* fetch f is the first upstream request after event i
        Retry(i, f) == i < f /\ \A g \in Idx(h, "fetch") : ~(i < g /\ g < f)
    IN /\ \A i \in Idx(h, "refreshOk") : \E r \in Idx(h, "refresh") : r < i
       /\ \A r \in Idx(h, "refresh"), f \in Idx(h, "fetch") :
            Retry(r, f) =>
              \E i \in Idx(h, "refreshOk"), u \in Idx(h, "update"), v \in Idx(h, "save") :
                /\ r < i /\ i < u /\ u < v /\ v < f
                /\ h[u].v = h[i].v

C10_Witness ==
  \E q \in Reqs :
    /\ Has(hist[q], "refreshOk")
    /\ \E v \in Idx(hist[q], "save") : hist[q][v].v = 1 /\ hist[q][v + 1].e = "fetch"
    /\ tokenFile = <<accessToken, refreshToken>>

(***************************************************************************)
(* C11, as claimed: every successful code exchange assigns both tokens of  *)
(* the in-memory pair from the provider's answer and persists the pair, so *)
(* that loadTokens at the next start-up returns exactly that pair.         *)
(***************************************************************************)
C11_ExchangeAlwaysPersisted ==
  [][\A q \in Reqs :
       Exchanging(q) =>
         /\ accessToken' = Answer(q).v
         /\ refreshToken' = Answer(q).w
         /\ LoadTokens(tokenFile') = <<accessToken', refreshToken'>>]_vars

(***************************************************************************)
(* C11, amended: a successful code exchange assigns both tokens of the     *)
(* in-memory pair from the provider's answer; after a successful exchange  *)
(* or refresh whose save succeeds the persisted record equals the          *)
(* in-memory pair, and loadTokens at the next start-up returns that pair.  *)
(***************************************************************************)
C11_PersistenceRoundTrip ==
  [][\A q \in Reqs :
       /\ Exchanging(q) =>
            /\ Answer(q).e = "exchangeOk"
            /\ accessToken' = Answer(q).v /\ accessToken' # 0
            /\ refreshToken' = Answer(q).w /\ refreshToken' # 0
       /\ ((Exchanging(q) \/ Refreshing(q)) /\ SaveSucceeds(q)) =>
            /\ tokenFile' = <<accessToken', refreshToken'>>
            /\ LoadTokens(tokenFile') = <<accessToken', refreshToken'>>]_vars

C11_Witness ==
  \E p, q \in Reqs :
    /\ \E i \in Idx(hist[p], "exchangeOk") : hist[p][i + 2] = Ev("save", 1, 0)
    /\ \E i \in Idx(hist[q], "refreshOk") :
         /\ hist[q][i + 2] = Ev("save", 1, 0)
         /\ hist[q][i].w = 0
         /\ tokenFile = <<hist[q][i].v, refreshToken>>
    /\ LoadTokens(tokenFile) = <<accessToken, refreshToken>>

(***************************************************************************)
(* C12, as claimed: when two overlapping /current invocations that each    *)
(* received a 401 and each called the token endpoint have both finished,   *)
(* both have answered their callers, the in-memory access token is the one *)
(* returned by the refresh that completed last, and the persisted record   *)
(* equals the in-memory pair.                                              *)
(***************************************************************************)
C12_RefreshRaceConsistent ==
  \A p, q \in Reqs :
    (/\ p # q
     /\ Has(hist[p], "refresh") /\ Has(hist[q], "refresh")
     /\ pc[p] = "done" /\ pc[q] = "done") =>
       /\ Responded(hist[p]) /\ Responded(hist[q])
       /\ Updates # {} => accessToken = Newest.v
       /\ tokenFile = <<accessToken, refreshToken>>

(***************************************************************************)
(* C12, amended: two overlapping /current invocations that each receive a  *)
(* 401 and each call the token endpoint do no harm to the token pair: when *)
(* both have finished, both have answered their callers, the in-memory     *)
(* access token is the one returned by the refresh that completed last,    *)
(* and, when the save of that refresh succeeded, the persisted record      *)
(* equals the in-memory pair.                                              *)
(***************************************************************************)
C12_RefreshRaceHarmless ==
  \A p, q \in Reqs :
    (/\ p # q
     /\ Has(hist[p], "refresh") /\ Has(hist[q], "refresh")
     /\ pc[p] = "done" /\ pc[q] = "done") =>
       /\ Responded(hist[p]) /\ Responded(hist[q])
       /\ Updates # {} => accessToken = Newest.v
       /\ Updates = {} => accessToken = OldToken /\ refreshToken = OldToken
       /\ (Updates # {} /\ Newest.saved) => tokenFile = <<accessToken, refreshToken>>
       /\ Updates = {} => tokenFile = <<accessToken, refreshToken>>

C12_Witness ==
  \E p, q \in Reqs :
    /\ p < q
    /\ pc[p] = "done" /\ pc[q] = "done"
    /\ hist[p][2] = Ev("fetch", OldToken, 0) /\ hist[q][2] = Ev("fetch", OldToken, 0)
    /\ Count(hist[p], "refreshOk") = 1 /\ Count(hist[q], "refreshOk") = 1
    /\ Last(hist[p]).v = 200 /\ Last(hist[q]).v = 200
    /\ \E i \in Idx(hist[p], "refreshOk") : hist[p][i].v = accessToken
    /\ \E i \in Idx(hist[q], "refreshOk") : hist[q][i].v # accessToken
    /\ tokenFile = <<accessToken, refreshToken>>

(***************************************************************************)
(* C13: when the code exchange of /callback fails, the handler catches the *)
(* failure and answers 5xx, makes no second exchange or other provider     *)
(* call, and leaves the in-memory token pair and the persisted record as   *)
(* they were.                                                              *)
(***************************************************************************)
C13_ExchangeFailure ==
  [][\A q \in Reqs :
       ExchangeFailing(q) =>
         /\ pc'[q] = "done"
         /\ Last(hist'[q]).e = "respond"
         /\ Last(hist'[q]).v \in 500..599
         /\ Count(hist'[q], "exchange") = 1
         /\ ~Has(hist'[q], "update") /\ ~Has(hist'[q], "save")
         /\ env'.calls = env.calls
         /\ TokenPairUnchanged
         /\ tokenFile' = tokenFile]_vars

C13_Witness ==
  \E q \in Reqs :
    /\ pc[q] = "done"
    /\ Has(hist[q], "exchangeFail")
    /\ Last(hist[q]) = Ev("respond", 500, ErrAuthFailed)
    /\ accessToken = OldToken /\ refreshToken = OldToken
    /\ tokenFile = <<OldToken, OldToken>>

(***************************************************************************)
(* C14: when saveTokens fails during a code exchange or a refresh, the     *)
(* failure is logged and goes no further: the in-memory pair keeps the     *)
(* tokens just obtained, the exchange answers with its success page and    *)
(* the refresh is followed by the retried upstream request, and the        *)
(* persisted record keeps the value it had.                                *)
(***************************************************************************)
C14_SaveFailureKeepsRecord ==
  [][\A q \in Reqs :
       SaveFails(q) =>
         /\ C14_Tolerated(q)
         /\ tokenFile' = tokenFile
         /\ LoadTokens(tokenFile') = LoadTokens(tokenFile)]_vars

(***************************************************************************)
(* C14, without its last clause: a failing saveTokens is logged and goes   *)
(* no further, the in-memory pair keeps the tokens just obtained and the   *)
(* request goes on as after a save that succeeded.                         *)
(***************************************************************************)
C14_SaveFailureTolerated ==
  [][\A q \in Reqs : SaveFails(q) => C14_Tolerated(q)]_vars

(***************************************************************************)
(* C15: a /current invocation answered 429 with a retry-after hint of N    *)
(* seconds and then 200 suspends for N seconds, makes no upstream request  *)
(* while suspended, makes exactly one retry (two upstream requests, no     *)
(* refresh) and answers with the 200 payload.                              *)
(***************************************************************************)
C15_SuspendsForHint ==
  [][\A q \in Reqs : BackoffThenRetry(q, 0)]_vars

(***************************************************************************)
(* C15, for hints of one second or more: the same, N >= 1.                 *)
(***************************************************************************)
C15_SuspendsForPositiveHint ==
  [][\A q \in Reqs : BackoffThenRetry(q, 1)]_vars

(***************************************************************************)
(* C16: an upstream outcome of /current other than success, 401 and 429    *)
(* (another error status, or a network failure with no response) ends the  *)
(* invocation with a 500 answer: no upstream request, refresh or backoff   *)
(* follows it.                                                             *)
(***************************************************************************)
C16_OtherFailureIs500 ==
  [][\A q \in Reqs :
       /\ (Answered(q) /\ Answer(q).v \notin {200, 204, 401, 429}) =>
            /\ Logged(q) = <<Ev("status", Answer(q).v, 0),
                             Ev("respond", 500, ErrFetchFailed)>>
            /\ pc'[q] = "done"
            /\ env'.calls = env.calls
            /\ TokenPairUnchanged
       /\ pc[q] = "done" => pc'[q] = "done" /\ hist'[q] = hist[q]]_vars

C16_Witness ==
  \E p, q \in Reqs :
    /\ pc[p] = "done" /\ pc[q] = "done"
    /\ SubSeq(hist[p], Len(hist[p]) - 1, Len(hist[p])) =
         <<Ev("status", 500, 0), Ev("respond", 500, ErrFetchFailed)>>
    /\ SubSeq(hist[q], Len(hist[q]) - 1, Len(hist[q])) =
         <<Ev("status", 0, 0), Ev("respond", 500, ErrFetchFailed)>>
    /\ Count(hist[q], "fetch") = 2

(***************************************************************************)
(* C17: while a /current invocation is suspended in its rate-limit         *)
(* backoff the other requests are not held up: a /login, a /callback and a *)
(* /current can arrive, take each of their steps and respond before the    *)
(* backoff ends.                                                           *)
(***************************************************************************)
C17_BackoffDoesNotBlock ==
  \A q \in Suspended : \A p \in Reqs \ {q} :
    /\ (NextSlot(p) /\ Sends("login")) => ENABLED Login(p, Undefined)
    /\ (NextSlot(p) /\ Sends("callback")) =>
         /\ ENABLED Callback(p, 1, ForgedState)
         /\ CanCall(p) => \A s \in DOMAIN stateStore : ENABLED Callback(p, 1, s)
    /\ (/\ NextSlot(p) /\ Sends("current")
        /\ CanCall(p) \/ ~Authenticated(accessToken)) => ENABLED Current(p)
    /\ pc[p] = "exchange" =>
         /\ ENABLED ExchangeOk(p, MintedAccess, MintedRefresh, TRUE, FALSE)
         /\ ENABLED ExchangeFail(p)
    /\ pc[p] = "fetch" =>
         /\ ENABLED FetchOk(p, 200, 1)
         /\ ENABLED FetchErr(p, 500, UndefinedChars)
    /\ pc[p] = "refresh" => ENABLED RefreshFail(p)

C17_Witness ==
  \E q \in Suspended : \E l, c, n \in Reqs \ {q} :
    /\ ServedDuring(l, q, "login")
    /\ ServedDuring(c, q, "callback") /\ Has(hist[c], "exchangeOk")
    /\ ServedDuring(n, q, "current") /\ Last(hist[n]).v = 200

(***************************************************************************)
(* C18: in the document-store variant /callback makes a code exchange only *)
(* for a state that /login issued and that no other /callback has used; a  *)
(* request with any other state is rejected without an exchange and        *)
(* without a change of the token pair.                                     *)
(***************************************************************************)
C18_MongoStateEnforced ==
  \A q \in Reqs :
    (hist[q] # <<>> /\ hist[q][1].e = "callback" /\ Has(hist[q], "exchange")) =>
      /\ hist[q][1].w \in 1..generated
      /\ \A p \in Reqs \ {q} :
           CallbackWith(hist[p], hist[q][1].w) => ~Has(hist[p], "exchange")

(***************************************************************************)
(* C19: a /current invocation that ends on a 401 of the upstream, no       *)
(* refresh having resolved it (the refresh failed, or no refresh token is  *)
(* stored and none is attempted), answers its caller 401, never 500.       *)
(***************************************************************************)
C19_Unresolved401Is401 ==
  \A q \in Reqs :
    LET h == hist[q]
    IN (/\ Responded(h)
        /\ Statuses(h) # <<>>
        /\ Last(Statuses(h)).v = 401) => Last(h).v = 401

(***************************************************************************)
(* C20: on a 429 the backoff lasts the seconds of the retry-after hint for *)
(* every hint that is a decimal integer, 0 included, and lasts 1 second    *)
(* exactly when the hint is absent or is not a decimal integer.            *)
(***************************************************************************)
C20_BackoffEqualsHint ==
  \A q \in Reqs :
    pc[q] = "delay" =>
      LET hdr == retryHdr[q]
          seconds == Last(hist[q]).v
      IN /\ Last(hist[q]).e = "delay"
         /\ IsInteger(hdr) => seconds = DigitPrefix(hdr, 0)
         /\ ~IsInteger(hdr) => seconds = 1
         /\ (IsInteger(hdr) /\ seconds = 1) => DigitPrefix(hdr, 0) = 1

(***************************************************************************)
(* C20, for hints of one second or more: the backoff lasts the seconds of  *)
(* a hint that is a decimal integer of at least 1, and 1 second when the   *)
(* header is absent or holds no digit.                                     *)
(***************************************************************************)
C20_BackoffEqualsPositiveHint ==
  \A q \in Reqs :
    pc[q] = "delay" =>
      LET hdr == retryHdr[q]
          seconds == Last(hist[q]).v
      IN /\ Last(hist[q]).e = "delay"
         /\ (IsInteger(hdr) /\ DigitPrefix(hdr, 0) >= 1) => seconds = DigitPrefix(hdr, 0)
         /\ (\A i \in 1..Len(hdr) : ~IsDigit(hdr[i])) => seconds = 1

\* the states issued by /login that no /callback has consumed
Outstanding ==
  {s \in 1..generated : \A q \in Reqs : ~Consumed(hist[q], s)}

\* the registry holds the outstanding states and no other; a request that
\* makes the code exchange has consumed its state before, once, and a
\* /callback with a code that did not consume its state was answered 400
\* invalid state
C21_Registry ==
  /\ DOMAIN stateStore = Outstanding
  /\ \A q \in Reqs :
       Has(hist[q], "exchange") =>
         /\ hist[q][2] = Ev("consume", hist[q][1].w, 0)
         /\ hist[q][3].e = "exchange"
         /\ Count(hist[q], "consume") = 1 /\ Count(hist[q], "exchange") = 1
         /\ ~StateStoreHas(stateStore, hist[q][1].w)
  /\ \A q \in Reqs, s \in 1..generated :
       (CallbackWith(hist[q], s) /\ ~Consumed(hist[q], s)) =>
         /\ hist[q] = <<Ev("callback", hist[q][1].v, s),
                        Ev("respond", 400, ErrInvalidState)>>
         /\ \E p \in Reqs \ {q} : Consumed(hist[p], s)

\* the /callback that arrives without a code is answered 400 and leaves the
\* registry as it was; the one that passes the validation takes its state
\* out of the registry in the step that starts the exchange; the answer of
\* the token endpoint, failure included, does not put it back
C21_Step ==
  \A q \in Reqs :
    /\ (/\ Arriving(q)
        /\ hist'[q][1].e = "callback"
        /\ hist'[q][1].v = 0) =>
          /\ hist'[q] = <<hist'[q][1], Ev("respond", 400, ErrMissing)>>
          /\ stateStore' = stateStore
    /\ (Arriving(q) /\ pc'[q] = "exchange") =>
          /\ StateStoreHas(stateStore, hist'[q][1].w)
          /\ stateStore' = StateStoreDelete(stateStore, hist'[q][1].w)
    /\ (ExchangeFailing(q) \/ Exchanging(q)) => stateStore' = stateStore

(***************************************************************************)
(* C21: a /callback that passes the state validation removes its state     *)
(* from the registry before the code exchange is attempted, so the state   *)
(* stays consumed when the exchange fails and a later /callback with the   *)
(* same state is answered 400 invalid state; a /callback rejected for a    *)
(* missing code leaves the state in the registry; and at all times the     *)
(* registry holds exactly the states issued by /login and not yet          *)
(* consumed.                                                               *)
(***************************************************************************)
C21_StateConsumedBeforeExchange == []C21_Registry /\ [][C21_Step]_vars

\* a /callback without a code left the state in the registry, the next one
\* consumed it and its exchange failed, and a later one with the same state
\* was answered 400 invalid state
C21_Witness ==
  \E s \in 1..generated, m, c, r \in Reqs :
    /\ m < c /\ c < r
    /\ hist[m] = <<Ev("callback", 0, s), Ev("respond", 400, ErrMissing)>>
    /\ Consumed(hist[c], s)
    /\ Has(hist[c], "exchangeFail")
    /\ Last(hist[c]) = Ev("respond", 500, ErrAuthFailed)
    /\ hist[r] = <<Ev("callback", 1, s), Ev("respond", 400, ErrInvalidState)>>
    /\ ~StateStoreHas(stateStore, s)

\* the later /callback is answered 400 while the exchange of the one that
\* consumed the state is still in flight
C21_WitnessInFlight ==
  \E s \in 1..generated, c, r \in Reqs :
    /\ pc[c] = "exchange"
    /\ Consumed(hist[c], s)
    /\ hist[r] = <<Ev("callback", 1, s), Ev("respond", 400, ErrInvalidState)>>

====
